---- MODULE Spec2Model ----
(***************************************************************************)
(* GCRA rate limiter (src/lib/rate_limiter.rs) driven by the TestClock of  *)
(* src/lib/clock.rs and called from several threads.                       *)
(*                                                                         *)
(* The timestamp type u64 is modelled as an unsigned word with the values  *)
(* 0..U64Max: every conversion saturates at U64Max and every wrapping      *)
(* addition is taken modulo U64Max + 1, as the code does at 64 bits.       *)
(***************************************************************************)
EXTENDS Integers, FiniteSets, Sequences, TLC

\* ---------------------------------------------------------------- bounds
\* stands for u64::MAX: the largest value of the timestamp word
U64Max == 4
NumThreads == 2
NumKeys == 2
MaxAdvance == 1
MaxBurst == 1

\* ------------------------------------------------------- program constants
NANOS_PER_SECOND == 1000000000

U64 == 0..U64Max
\* the number of values of the word: wrapping arithmetic is modulo this
Modulus == U64Max + 1

Threads == 1..NumThreads
Keys == 1..NumKeys

\* Option<u64>::None of DashMap::get, and the absent entry of the map
None == -1

\* rates offered to the constructor, in requests per second: they give the
\* increments 0, 1, 2 and one that saturates the word
Rates == {2000000000, 1000000000, 500000000, 1}
Bursts == 0..MaxBurst
AdvanceNanos == -1..MaxAdvance

Max(a, b) == IF a >= b THEN a ELSE b
Min(a, b) == IF a <= b THEN a ELSE b

\* `x as u64` for a float x: truncation was done by the caller (integer
\* division), negative values give 0 and large values saturate
AsU64(x) == IF x < 0 THEN 0 ELSE IF x > U64Max THEN U64Max ELSE x

\* a subtraction that wraps instead of saturating
WrappingSub(a, b) == (a - b) % Modulus

\* u64::saturating_sub
SaturatingSub(a, b) == IF b > a THEN 0 ELSE a - b

\* a constructor that validates the burst before the rate
NewBurstFirst(rate_per_second, burst_capacity) ==
    IF burst_capacity < 0 THEN [err |-> "InvalidBurst"]
    ELSE IF rate_per_second <= 0 THEN [err |-> "InvalidRate"]
    ELSE LET rn == AsU64(NANOS_PER_SECOND \div rate_per_second)
         IN  [err |-> "Ok",
              rate_nanos |-> rn,
              tolerance_nanos |-> AsU64(burst_capacity * rn)]

\* RateLimiter::new: the validation and the conversion to nanoseconds
New(rate_per_second, burst_capacity) ==
    IF rate_per_second <= 0 THEN [err |-> "InvalidRate"]
    ELSE IF burst_capacity < 0 THEN [err |-> "InvalidBurst"]
    ELSE LET rn == AsU64(NANOS_PER_SECOND \div rate_per_second)
         IN  [err |-> "Ok",
              rate_nanos |-> rn,
              tolerance_nanos |-> AsU64(burst_capacity * rn)]

VARIABLES
    overflow_checks,      \* build profile: TRUE panics on overflow, FALSE wraps
    rate_nanos,           \* RateLimiter.rate_nanos
    tolerance_nanos,      \* RateLimiter.tolerance_nanos
    burst,                \* the burst_capacity given to the constructor
    time,                 \* TestClock.time
    client_state,         \* RateLimiter.client_state: key -> TAT or None
    pc,                   \* per thread: position inside is_allowed
    client_id,            \* per thread: the argument of is_allowed
    current_time_nanos,   \* per thread: local of is_allowed
    entry,                \* per thread: what client_state.get returned
    result,               \* per thread: what the call returned
    fresh,                \* history: no call has returned, the clock has not moved
    last_admit,           \* history, per key: the time of the last admitted call
    series,               \* history, per key: calls made in a row at this instant
    call_new,             \* the call of RateLimiter::new and of the accessors
    spent,                \* history, per key: the use of the burst and after
    window                \* history: admitted calls counted from a chosen one

vars == <<overflow_checks, rate_nanos, tolerance_nanos, burst, time,
          client_state, pc, client_id, current_time_nanos, entry, result,
          fresh, last_admit, series, call_new, spent, window>>

\* the history variables of the sequential runs
seq_history == <<last_admit, series>>

\* what the runs of is_allowed alone leave as it is
other_history == <<call_new, spent, window>>

\* no value returned by an accessor yet
NoQuotient == [num |-> None, den |-> None]

\* no call of the constructor recorded yet
NoCall == [rate |-> None, burst |-> None, out |-> "none",
           rate_out |-> NoQuotient, burst_out |-> NoQuotient]

\* no admitted call chosen as the first of a window
NoWindow == [ph |-> "none", k |-> None, t0 |-> None, t1 |-> None, n |-> 0]

\* the phases of the use of a burst
SpentIdle == [ph |-> "idle", n |-> 0, at |-> None]

config == <<overflow_checks, rate_nanos, tolerance_nanos, burst>>

TypeOK ==
    /\ overflow_checks \in BOOLEAN
    /\ rate_nanos \in U64 \cup {None}
    /\ tolerance_nanos \in U64 \cup {None}
    /\ burst \in Bursts \cup {None}
    /\ time \in U64
    /\ client_state \in [Keys -> U64 \cup {None}]
    /\ pc \in [Threads -> {"idle", "get", "test", "done"}]
    /\ client_id \in [Threads -> Keys \cup {None}]
    /\ current_time_nanos \in [Threads -> U64 \cup {None}]
    /\ entry \in [Threads -> U64 \cup {None}]
    /\ result \in [Threads -> {"none", "Ok(true)", "Ok(false)", "panic"}]
    /\ fresh \in BOOLEAN
    /\ last_admit \in [Keys -> U64 \cup {None}]
    /\ series \in [Keys -> (1..(MaxBurst + 2)) \cup {None}]
    /\ call_new.out \in {"none", "Ok", "InvalidRate", "InvalidBurst"}
    /\ \A k \in Keys : spent[k].ph \in {"idle", "off", "burst", "spent", "recovered"}
    /\ window.ph \in {"none", "open", "void"}

Init ==
    /\ overflow_checks \in BOOLEAN
    /\ \E r \in Rates, b \in Bursts :
          LET l == New(r, b)
          IN  /\ l.err = "Ok"
              /\ rate_nanos = l.rate_nanos
              /\ tolerance_nanos = l.tolerance_nanos
              /\ burst = b
    /\ time \in U64
    /\ client_state = [k \in Keys |-> None]
    /\ pc = [t \in Threads |-> "idle"]
    /\ client_id = [t \in Threads |-> None]
    /\ current_time_nanos = [t \in Threads |-> None]
    /\ entry = [t \in Threads |-> None]
    /\ result = [t \in Threads |-> "none"]
    /\ fresh = TRUE
    /\ last_admit = [k \in Keys |-> None]
    /\ series = [k \in Keys |-> None]
    /\ call_new = NoCall
    /\ spent = [k \in Keys |-> SpentIdle]
    /\ window = NoWindow

\* ------------------------------------------------------------- TestClock
\* TestClock::advance: the delta is converted with `as u64` and added with
\* fetch_add, which wraps
FetchAdd(old, nanos) == (old + nanos) % (Modulus)

Advance(d) ==
    /\ time' = FetchAdd(time, AsU64(d))
    /\ fresh' = (fresh /\ time' = time)
    /\ UNCHANGED <<config, client_state, pc, client_id, current_time_nanos,
                   entry, result>>

\* ------------------------------------------------------------ is_allowed
\* Option::unwrap_or
UnwrapOr(opt, default) == IF opt = None THEN default ELSE opt

\* the test with the boundary excluded
IsConformingStrict(cur, prev, tol) == cur > SaturatingSub(prev, tol)

\* the core GCRA test
IsConforming(cur, prev, tol) == cur >= SaturatingSub(prev, tol)

\* DashMap::get(..).map(|entry| *entry.value())
MapGet(m, k) == m[k]

\* an insert that lands on every entry of the shard
MapInsertShard(m, k, v) == [j \in DOMAIN m |-> v]

\* DashMap::insert
MapInsert(m, k, v) == [m EXCEPT ![k] = v]

\* line 122: the call starts by reading the clock
Start(t, k) ==
    /\ pc[t] = "idle"
    /\ pc' = [pc EXCEPT ![t] = "get"]
    /\ client_id' = [client_id EXCEPT ![t] = k]
    /\ current_time_nanos' = [current_time_nanos EXCEPT ![t] = time]
    /\ UNCHANGED <<config, time, client_state, entry, result, fresh>>

\* lines 125-129: the read of the map
Get(t) ==
    /\ pc[t] = "get"
    /\ entry' = [entry EXCEPT ![t] = MapGet(client_state, client_id[t])]
    /\ pc' = [pc EXCEPT ![t] = "test"]
    /\ UNCHANGED <<config, time, client_state, client_id, current_time_nanos,
                   result, fresh>>

\* a new TAT that always moves by at least one unit
NewTatAtLeastOne(cur, prev, inc) == Max(cur, prev) + Max(inc, 1)

\* line 137: max(current_time, previous_tat) + increment, before any wrap
NewTat(cur, prev, inc) == Max(cur, prev) + inc

\* the `+` of line 137 on u64: it panics when the build checks overflow
AddPanics(sum, checks) == checks /\ sum > U64Max

\* an update that does not look at the result of the test
UpdateAlways(m, k, is_conforming, sum, checks) ==
    IF ~AddPanics(sum, checks) THEN MapInsert(m, k, sum % Modulus) ELSE m

\* an update that drops the entry of a denied key
UpdateEvicting(m, k, is_conforming, sum, checks) ==
    IF is_conforming /\ ~AddPanics(sum, checks)
    THEN MapInsert(m, k, sum % Modulus)
    ELSE [m EXCEPT ![k] = None]

\* lines 135-139: the map after the call
Update(m, k, is_conforming, sum, checks) ==
    IF is_conforming /\ ~AddPanics(sum, checks)
    THEN MapInsert(m, k, sum % Modulus)
    ELSE m

\* line 141, or the panic of line 137
Returned(is_conforming, sum, checks) ==
    IF ~is_conforming THEN "Ok(false)"
    ELSE IF AddPanics(sum, checks) THEN "panic"
    ELSE "Ok(true)"

\* lines 129-141: the test, the new TAT, the write of the map and the return
Test(t) ==
    /\ pc[t] = "test"
    /\ LET cur == current_time_nanos[t]
           previous_tat_nanos == UnwrapOr(entry[t], cur)
           is_conforming == IsConforming(cur, previous_tat_nanos, tolerance_nanos)
           sum == NewTat(cur, previous_tat_nanos, rate_nanos)
       IN  /\ client_state' = Update(client_state, client_id[t], is_conforming,
                                     sum, overflow_checks)
           /\ result' = [result EXCEPT ![t] =
                             Returned(is_conforming, sum, overflow_checks)]
    /\ pc' = [pc EXCEPT ![t] = "done"]
    /\ current_time_nanos' = [current_time_nanos EXCEPT ![t] = None]
    /\ entry' = [entry EXCEPT ![t] = None]
    /\ UNCHANGED <<config, time, client_id, fresh>>

\* the caller takes the result; the locals of the call are gone
Return(t) ==
    /\ pc[t] = "done"
    /\ pc' = [pc EXCEPT ![t] = "idle"]
    /\ client_id' = [client_id EXCEPT ![t] = None]
    /\ result' = [result EXCEPT ![t] = "none"]
    /\ fresh' = FALSE
    /\ UNCHANGED <<config, time, client_state, current_time_nanos, entry>>

\* ------------------------------------------------- concurrent callers
ConcAdvance(d) == Advance(d) /\ UNCHANGED <<seq_history, other_history>>
ConcStart(t, k) == Start(t, k) /\ UNCHANGED <<seq_history, other_history>>
ConcGet(t) == Get(t) /\ UNCHANGED <<seq_history, other_history>>
ConcTest(t) == Test(t) /\ UNCHANGED <<seq_history, other_history>>
ConcReturn(t) == Return(t) /\ UNCHANGED <<seq_history, other_history>>

Next ==
    \/ \E d \in AdvanceNanos : ConcAdvance(d)
    \/ \E t \in Threads, k \in Keys : ConcStart(t, k)
    \/ \E t \in Threads : ConcGet(t)
    \/ \E t \in Threads : ConcTest(t)
    \/ \E t \in Threads : ConcReturn(t)

Spec == Init /\ [][Next]_vars

\* ------------------------------------------------- sequential callers
\* calls that do not overlap: a call starts when no other call is running
SeqAdvance(d) ==
    /\ Advance(d)
    /\ series' = IF time' = time THEN series ELSE [k \in Keys |-> None]
    /\ UNCHANGED <<last_admit, other_history>>

SeqStart(t, k) ==
    /\ \A u \in Threads \ {t} : pc[u] \in {"idle", "done"}
    /\ Start(t, k)
    /\ UNCHANGED <<seq_history, other_history>>

SeqGet(t) == Get(t) /\ UNCHANGED <<seq_history, other_history>>

SeqTest(t) ==
    /\ Test(t)
    /\ LET k == client_id[t]
           cur == current_time_nanos[t]
       IN  /\ last_admit' = IF result'[t] = "Ok(true)"
                             THEN [last_admit EXCEPT ![k] = cur]
                             ELSE last_admit
           /\ series' = [series EXCEPT ![k] =
                  IF cur # time \/ result'[t] = "panic" THEN None
                  ELSE IF series[k] # None THEN Min(series[k] + 1, MaxBurst + 2)
                  ELSE IF client_state[k] = None \/ client_state[k] <= cur THEN 1
                  ELSE None]
    /\ UNCHANGED other_history

SeqReturn(t) == Return(t) /\ UNCHANGED <<seq_history, other_history>>

NextSeq ==
    \/ \E d \in AdvanceNanos : SeqAdvance(d)
    \/ \E t \in Threads, k \in Keys : SeqStart(t, k)
    \/ \E t \in Threads : SeqGet(t)
    \/ \E t \in Threads : SeqTest(t)
    \/ \E t \in Threads : SeqReturn(t)

SpecSeq == Init /\ [][NextSeq]_vars

\* ------------------------------------------- the constructor, the accessors
\* what is offered to RateLimiter::new: the rates of the runs, a rate that
\* does not divide a second, and values the validation rejects
NewRates == Rates \cup {300000000, 0, -1}
NewBursts == -1..MaxBurst

\* an f64 quotient of two integers, kept as the fraction it stands for
\* (den = 0 is an infinity or a NaN)
Quotient(a, b) == [num |-> a, den |-> b]

\* RateLimiter::rate
Rate(rn) == Quotient(NANOS_PER_SECOND, rn)

\* RateLimiter::burst
Burst(tn, rn) == Quotient(tn, rn)

\* before RateLimiter::new is called there is no limiter
InitNew ==
    /\ overflow_checks \in BOOLEAN
    /\ rate_nanos = None
    /\ tolerance_nanos = None
    /\ burst = None
    /\ time \in U64
    /\ client_state = [k \in Keys |-> None]
    /\ pc = [t \in Threads |-> "idle"]
    /\ client_id = [t \in Threads |-> None]
    /\ current_time_nanos = [t \in Threads |-> None]
    /\ entry = [t \in Threads |-> None]
    /\ result = [t \in Threads |-> "none"]
    /\ fresh = TRUE
    /\ last_admit = [k \in Keys |-> None]
    /\ series = [k \in Keys |-> None]
    /\ call_new = NoCall
    /\ spent = [k \in Keys |-> SpentIdle]
    /\ window = NoWindow

\* the frame of the constructor and of the accessors
new_frame == <<overflow_checks, time, client_state, pc, client_id,
               current_time_nanos, entry, result, fresh, seq_history,
               spent, window>>

\* RateLimiter::new(r, b, clock): Err leaves no limiter behind
Construct(r, b) ==
    /\ call_new.out = "none"
    /\ LET l == New(r, b)
       IN  /\ call_new' = [call_new EXCEPT !.rate = r, !.burst = b,
                                            !.out = l.err]
           /\ IF l.err = "Ok"
              THEN /\ rate_nanos' = l.rate_nanos
                   /\ tolerance_nanos' = l.tolerance_nanos
                   /\ burst' = b
              ELSE UNCHANGED <<rate_nanos, tolerance_nanos, burst>>
    /\ UNCHANGED new_frame

\* limiter.rate()
CallRate ==
    /\ call_new.out = "Ok"
    /\ call_new.rate_out = NoQuotient
    /\ call_new' = [call_new EXCEPT !.rate_out = Rate(rate_nanos)]
    /\ UNCHANGED <<rate_nanos, tolerance_nanos, burst, new_frame>>

\* limiter.burst()
CallBurst ==
    /\ call_new.out = "Ok"
    /\ call_new.burst_out = NoQuotient
    /\ call_new' = [call_new EXCEPT !.burst_out = Burst(tolerance_nanos, rate_nanos)]
    /\ UNCHANGED <<rate_nanos, tolerance_nanos, burst, new_frame>>

NextNew ==
    \/ \E r \in NewRates, b \in NewBursts : Construct(r, b)
    \/ CallRate
    \/ CallBurst

SpecNew == InitNew /\ [][NextNew]_vars

\* ------------------------------------------------ the recovery of a burst
\* The use of the burst of key k, as the calls of burst_allowance_works make
\* it: "idle" (no call for k at this instant yet), "burst" (n calls for k at
\* this instant, all admitted), "spent" (burst + 1 admitted at instant at, then
\* denied there), "recovered" (one call admitted at at + rate_nanos), "off"
\* (any other history).
NextSpent(s, cur, r) ==
    IF r = "panic" \/ cur # time THEN SpentIdle
    ELSE IF s.ph = "idle"
         THEN IF r = "Ok(true)" THEN [ph |-> "burst", n |-> 1, at |-> None]
              ELSE [SpentIdle EXCEPT !.ph = "off"]
    ELSE IF s.ph = "burst"
         THEN IF r = "Ok(true)"
              THEN [s EXCEPT !.n = Min(s.n + 1, MaxBurst + 2)]
              ELSE IF s.n = burst + 1 THEN [ph |-> "spent", n |-> 0, at |-> cur]
              ELSE [SpentIdle EXCEPT !.ph = "off"]
    ELSE IF s.ph = "spent" /\ r = "Ok(false)" /\ cur = s.at THEN s
    ELSE IF s.ph = "spent" /\ r = "Ok(true)" /\ cur = s.at + rate_nanos
         THEN [s EXCEPT !.ph = "recovered"]
    ELSE [SpentIdle EXCEPT !.ph = "off"]

\* clock.advance between the calls: a new instant, the spent burst remembered
RecAdvance(d) ==
    /\ Advance(d)
    /\ spent' = [k \in Keys |->
                   IF time' = time \/ spent[k].ph = "spent" THEN spent[k]
                   ELSE SpentIdle]
    /\ UNCHANGED <<seq_history, call_new, window>>

RecStart(t, k) ==
    /\ \A u \in Threads \ {t} : pc[u] \in {"idle", "done"}
    /\ Start(t, k)
    /\ UNCHANGED <<seq_history, other_history>>

RecGet(t) == Get(t) /\ UNCHANGED <<seq_history, other_history>>

RecTest(t) ==
    /\ Test(t)
    /\ spent' = [spent EXCEPT ![client_id[t]] =
                   NextSpent(@, current_time_nanos[t], result'[t])]
    /\ UNCHANGED <<seq_history, call_new, window>>

RecReturn(t) == Return(t) /\ UNCHANGED <<seq_history, other_history>>

NextRecover ==
    \/ \E d \in AdvanceNanos : RecAdvance(d)
    \/ \E t \in Threads, k \in Keys : RecStart(t, k)
    \/ \E t \in Threads : RecGet(t)
    \/ \E t \in Threads : RecTest(t)
    \/ \E t \in Threads : RecReturn(t)

SpecRecover == Init /\ [][NextRecover]_vars

\* ------------------------------------------------ the calls of a window
\* bursts in halves (0, 0.5, 1, ...), as RateLimiter::new takes an f64
HalfBursts == 0..(2 * MaxBurst)

\* RateLimiter::new with burst_capacity = halves / 2
NewHalves(rate_per_second, halves) ==
    IF rate_per_second <= 0 THEN [err |-> "InvalidRate"]
    ELSE IF halves < 0 THEN [err |-> "InvalidBurst"]
    ELSE LET rn == AsU64(NANOS_PER_SECOND \div rate_per_second)
         IN  [err |-> "Ok",
              rate_nanos |-> rn,
              tolerance_nanos |-> AsU64((halves * rn) \div 2)]

\* the state after construction with a burst that may be fractional; burst
\* keeps the whole bursts as Init does, and nothing here reads it
InitWindow ==
    /\ overflow_checks \in BOOLEAN
    /\ \E r \in Rates, h \in HalfBursts :
          LET l == NewHalves(r, h)
          IN  /\ l.err = "Ok"
              /\ rate_nanos = l.rate_nanos
              /\ tolerance_nanos = l.tolerance_nanos
              /\ burst = IF h % 2 = 0 THEN h \div 2 ELSE None
    /\ time \in U64
    /\ client_state = [k \in Keys |-> None]
    /\ pc = [t \in Threads |-> "idle"]
    /\ client_id = [t \in Threads |-> None]
    /\ current_time_nanos = [t \in Threads |-> None]
    /\ entry = [t \in Threads |-> None]
    /\ result = [t \in Threads |-> "none"]
    /\ fresh = TRUE
    /\ last_admit = [k \in Keys |-> None]
    /\ series = [k \in Keys |-> None]
    /\ call_new = NoCall
    /\ spent = [k \in Keys |-> SpentIdle]
    /\ window = NoWindow

\* an admitted call of key k at cur: it opens a window, or is counted in the
\* open window of its key (the count stops above every value the bound takes)
Count(w, k, cur) ==
    IF w.ph = "open" /\ w.k = k
    THEN IF cur >= w.t1
         THEN {[w EXCEPT !.t1 = cur, !.n = Min(w.n + 1, U64Max + MaxBurst + 2)]}
         ELSE {[NoWindow EXCEPT !.ph = "void"]}
    ELSE IF w.ph = "none"
         THEN {w, [ph |-> "open", k |-> k, t0 |-> cur, t1 |-> cur, n |-> 1]}
    ELSE {w}

\* clock.advance; a clock that goes back ends the run with a non-decreasing
\* clock
WinAdvance(d) ==
    /\ Advance(d)
    /\ window' = IF time' < time THEN [NoWindow EXCEPT !.ph = "void"] ELSE window
    /\ UNCHANGED <<seq_history, call_new, spent>>

WinStart(t, k) ==
    /\ \A u \in Threads \ {t} : pc[u] \in {"idle", "done"}
    /\ Start(t, k)
    /\ UNCHANGED <<seq_history, other_history>>

WinGet(t) == Get(t) /\ UNCHANGED <<seq_history, other_history>>

WinTest(t) ==
    /\ Test(t)
    /\ IF result'[t] = "Ok(true)"
       THEN window' \in Count(window, client_id[t], current_time_nanos[t])
       ELSE window' = window
    /\ UNCHANGED <<seq_history, call_new, spent>>

WinReturn(t) == Return(t) /\ UNCHANGED <<seq_history, other_history>>

NextWindow ==
    \/ \E d \in AdvanceNanos : WinAdvance(d)
    \/ \E t \in Threads, k \in Keys : WinStart(t, k)
    \/ \E t \in Threads : WinGet(t)
    \/ \E t \in Threads : WinTest(t)
    \/ \E t \in Threads : WinReturn(t)

SpecWindow == InitWindow /\ [][NextWindow]_vars

\* ------------------------------------- a key that keeps requesting
\* The run of the last claim: calls made one after the other, each returned
\* before the next begins, under a clock that only advances (an advance that
\* would pass the top of the word is not made).
LiveAdvance(d) ==
    /\ time + AsU64(d) <= U64Max
    /\ Advance(d)
    /\ UNCHANGED <<seq_history, other_history>>

LiveStart(t, k) ==
    /\ \A u \in Threads : pc[u] = "idle"
    /\ Start(t, k)
    /\ UNCHANGED <<seq_history, other_history>>

LiveGet(t) == Get(t) /\ UNCHANGED <<seq_history, other_history>>

LiveTest(t) == Test(t) /\ UNCHANGED <<seq_history, other_history>>

LiveReturn(t) == Return(t) /\ UNCHANGED <<seq_history, other_history>>

NextLive ==
    \/ \E d \in AdvanceNanos : LiveAdvance(d)
    \/ \E t \in Threads, k \in Keys : LiveStart(t, k)
    \/ \E t \in Threads : LiveGet(t)
    \/ \E t \in Threads : LiveTest(t)
    \/ \E t \in Threads : LiveReturn(t)

\* the clock keeps advancing while it can, every key keeps requesting, and
\* every call that has begun runs to its end
Fairness ==
    /\ WF_vars(LiveAdvance(1))
    /\ \A k \in Keys : SF_vars(\E t \in Threads : LiveStart(t, k))
    /\ \A t \in Threads : WF_vars(LiveGet(t) \/ LiveTest(t) \/ LiveReturn(t))

SpecLive == Init /\ [][NextLive]_vars /\ Fairness

\* ------------------------------------------------------------------ claims
\* thread t performs the Test step of its call
TestStep(t) == pc[t] = "test" /\ pc'[t] = "done"

\* every thread has finished a call for key k and none has returned
AllDoneOn(k) == \A t \in Threads : pc[t] = "done" /\ client_id[t] = k

Admitted == {t \in Threads : result[t] = "Ok(true)"}

\* C1: N threads that each issue one call for the same unseen key at the same
\* instant get exactly B+1 admissions (all N when N <= B+1), whatever the
\* interleaving. Stated for a positive increment and a TAT that stays inside
\* the word, so that only the interleaving is in question.
C1_ConcurrentBurst ==
    \A k \in Keys :
        ( /\ fresh
          /\ AllDoneOn(k)
          /\ rate_nanos > 0
          /\ time + (burst + 1) * rate_nanos <= U64Max )
        => Cardinality(Admitted) = Min(NumThreads, burst + 1)

\* the calls of the threads applied one at a time, in the given order, to a key
\* without an entry, all at the instant `time`
RECURSIVE Serial(_, _)
Serial(order, n) ==
    IF n = 0 THEN [tat |-> None, res |-> << >>]
    ELSE LET s == Serial(order, n - 1)
             prev == IF s.tat = None THEN time ELSE s.tat
             ok == time >= prev - tolerance_nanos
         IN  [tat |-> IF ok THEN (Max(time, prev) + rate_nanos) % Modulus
                            ELSE s.tat,
              res |-> Append(s.res, ok)]

Orders == {o \in [1..NumThreads -> Threads] :
              \A i, j \in 1..NumThreads : o[i] = o[j] => i = j}

\* C2: the results of concurrent calls on one key, and the TAT they leave, are
\* those of the same calls run one at a time in some order.
C2_Serializable ==
    \A k \in Keys :
        ( /\ fresh
          /\ AllDoneOn(k)
          /\ \A t \in Threads : result[t] # "panic" )
        => \E o \in Orders :
              LET s == Serial(o, NumThreads)
              IN  /\ s.tat = client_state[k]
                  /\ \A i \in 1..NumThreads :
                        (result[o[i]] = "Ok(true)") = s.res[i]

C6_KeyIndependence ==
    [][\A t \in Threads :
          (pc[t] \in {"get", "test"} /\ pc'[t] # pc[t])
          => /\ \A b \in Keys \ {client_id[t]} :
                    client_state'[b] = client_state[b]
             /\ pc[t] = "get" => entry'[t] = client_state[client_id[t]]]_vars

\* key A has been denied while key B, never seen before, has been admitted
C6_Witness ==
    \E t, u \in Threads :
        /\ pc[t] = "done" /\ result[t] = "Ok(false)"
        /\ pc[u] = "done" /\ result[u] = "Ok(true)"
        /\ client_id[t] # client_id[u]
        /\ client_state[client_id[u]] = time + rate_nanos

\* C7: a call that returns false leaves the whole map as it was, and the map
\* changes only in the step of a call that returns true.
C7_DeniedNoWrite ==
    [][/\ \A t \in Threads :
             (TestStep(t) /\ result'[t] = "Ok(false)")
             => client_state' = client_state
       /\ client_state' # client_state
             => \E t \in Threads : TestStep(t) /\ result'[t] = "Ok(true)"]_vars

\* a call has been denied on a key that has an entry
C7_Witness ==
    \E t \in Threads :
        /\ pc[t] = "done"
        /\ result[t] = "Ok(false)"
        /\ client_state[client_id[t]] # None

C4_Spacing ==
    [][\A t \in Threads :
          ( /\ TestStep(t)
            /\ burst = 0
            /\ rate_nanos > 0
            /\ last_admit[client_id[t]] # None )
          => LET cur == current_time_nanos[t]
                 la == last_admit[client_id[t]]
             IN  /\ (la <= cur /\ cur < la + rate_nanos)
                        => result'[t] # "Ok(true)"
                 /\ cur = la + rate_nanos => result'[t] # "Ok(false)"]_vars

\* C5: for a key whose TAT is absent or not later than now, of the sequential
\* calls made at one unchanged instant exactly the first B+1 are admitted and
\* the (B+2)-th and every later one is denied. Stated for a positive
\* increment; n is the position of the call in the series.
C5_BurstCapacity ==
    [][\A t \in Threads :
          ( /\ TestStep(t)
            /\ rate_nanos > 0
            /\ current_time_nanos[t] = time
            /\ result'[t] # "panic" )
          => LET k == client_id[t]
                 n == IF series[k] # None THEN series[k] + 1
                      ELSE IF client_state[k] = None \/ client_state[k] <= time
                      THEN 1 ELSE 0
             IN  n >= 1 => ((result'[t] = "Ok(true)") <=> (n <= burst + 1))]_vars

\* C9: a call that returns true leaves for its key exactly
\* max(current, previous_tat) + increment, with previous_tat the TAT the call
\* read, or current when it read none.
C9_TatUpdate ==
    [][\A t \in Threads :
          (TestStep(t) /\ result'[t] = "Ok(true)")
          => LET cur == current_time_nanos[t]
                 prev == IF entry[t] = None THEN cur ELSE entry[t]
             IN  client_state'[client_id[t]] =
                     (IF cur >= prev THEN cur ELSE prev) + rate_nanos]_vars

\* C10: a write to the entry of a key never stores less than it replaces.
C10_NoRegress ==
    [][\A k \in Keys :
          client_state[k] # None => client_state'[k] >= client_state[k]]_vars

\* C13: a call that has ended has returned Ok(true) or Ok(false): none ends in
\* a panic or an error.
C13_Completes ==
    \A t \in Threads :
        pc[t] = "done" => result[t] \in {"Ok(true)", "Ok(false)"}

\* C14: an entry is never removed, an entry appears only in the step of a call
\* for that key that returns true, and every call that returns true leaves an
\* entry for its key.
C14_EntryLifecycle ==
    [][/\ \A k \in Keys :
             /\ client_state[k] # None => client_state'[k] # None
             /\ (client_state[k] = None /\ client_state'[k] # None)
                   => \E t \in Threads : /\ TestStep(t)
                                          /\ client_id[t] = k
                                          /\ result'[t] = "Ok(true)"
       /\ \A t \in Threads :
             (TestStep(t) /\ result'[t] = "Ok(true)")
             => client_state'[client_id[t]] # None]_vars

\* every key has an entry, and a call on a key with an entry has been denied
C14_Witness ==
    /\ \A k \in Keys : client_state[k] # None
    /\ \E t \in Threads : pc[t] = "done" /\ result[t] = "Ok(false)"

C16_ZeroIncrement ==
    [][\A t \in Threads :
          ( /\ TestStep(t)
            /\ rate_nanos = 0
            /\ \/ last_admit[client_id[t]] = None
               \/ last_admit[client_id[t]] <= current_time_nanos[t] )
          => result'[t] = "Ok(true)"]_vars

\* with increment 0 a third call in a row at one instant has been admitted
C16_Witness ==
    \E t \in Threads :
        /\ rate_nanos = 0
        /\ pc[t] = "done"
        /\ result[t] = "Ok(true)"
        /\ series[client_id[t]] = 3

\* C18: the values of the clock, as successive now() calls see them, never
\* decrease, whatever advance is applied.
C18_ClockMonotonic == [][time' >= time]_vars

\* C20: an admitted call computes max(current, previous_tat) + increment inside
\* the word: the call does not panic and the TAT it stores is at least
\* current + increment.
C20_NoWrap ==
    [][\A t \in Threads :
          TestStep(t) =>
              /\ result'[t] # "panic"
              /\ result'[t] = "Ok(true)"
                    => client_state'[client_id[t]]
                          >= current_time_nanos[t] + rate_nanos]_vars

\* the quotient q is exactly the number x
IsExactly(q, x) == q.den # 0 /\ q.num % q.den = 0 /\ q.num \div q.den = x

C12_AccessorRoundTrip ==
    call_new.out = "Ok" =>
        /\ call_new.rate_out # NoQuotient
              => IsExactly(call_new.rate_out, call_new.rate)
        /\ call_new.burst_out # NoQuotient
              => IsExactly(call_new.burst_out, call_new.burst)

\* C17: after a key has used its whole burst at instant t (burst + 1 calls
\* admitted, the next denied), the first call at t + rate_nanos returns true
\* and the next call at that same instant returns false.
C17_BurstRecovery ==
    [][\A t \in Threads :
         (TestStep(t) /\ current_time_nanos[t] = time /\ result'[t] # "panic") =>
             LET s == spent[client_id[t]]
             IN  /\ (s.ph = "spent" /\ current_time_nanos[t] = s.at + rate_nanos)
                       => result'[t] = "Ok(true)"
                 /\ s.ph = "recovered" => result'[t] = "Ok(false)"]_vars

\* C19: in a sequential run with a non-decreasing clock and rate_nanos > 0,
\* the calls of a key admitted at times in [t0, t1] number at most
\* B + 1 + floor((t1 - t0) / rate_nanos), B = tolerance_nanos / rate_nanos
\* (both sides multiplied by rate_nanos).
C19_RateBound ==
    (window.ph = "open" /\ rate_nanos > 0) =>
        window.n * rate_nanos
           <= tolerance_nanos + rate_nanos
              + ((window.t1 - window.t0) \div rate_nanos) * rate_nanos

\* the call that has just ended was for key k and returned r
Ended(k, r) ==
    \E t \in Threads : pc[t] = "done" /\ client_id[t] = k /\ result[t] = r

\* C21: after a denied is_allowed(key), if the clock keeps advancing and the
\* key keeps requesting, a later is_allowed(key) returns true.
C21_EventualReadmission ==
    \A k \in Keys : Ended(k, "Ok(false)") ~> Ended(k, "Ok(true)")

====
